---- MODULE Spec2Model ----
(***************************************************************************)
(* Kenyan phone number fields (kenyan_phone_fields.py).                    *)
(*                                                                         *)
(* The three validators and the six conversion methods (to_python and      *)
(* get_prep_value of SafaricomPhoneField, AirtelPhoneField and             *)
(* KenyanPhoneField) are pure functions of one value.  A Python string is  *)
(* modelled as a sequence of one-character strings, None as a value that   *)
(* is no string.  The state machine draws an input value, then calls the   *)
(* functions on it; a conversion may also be called on the value an        *)
(* earlier conversion of the same field returned (the value crosses the    *)
(* form/model boundary, then the model/database boundary).                 *)
(***************************************************************************)
EXTENDS Naturals, Sequences, FiniteSets

VARIABLES
    value,    \* the input the caller supplied
    fn,       \* the function called last ("none" before the first call)
    arg,      \* the argument of the last call
    ret,      \* what the last call returned (None for a validator)
    raised,   \* the ValidationError message of the last call, or NoError
    checks    \* the checks the last validator call evaluated, in order

vars == <<value, fn, arg, ret, raised, checks>>

----------------------------------------------------------------------------
(* Python values and str methods *)

\* None: a value that is not a string (no string has this element).
None == <<"None">>

\* The one-character strings of the model's alphabet.  LF is the newline
\* character; ArabicThree stands for U+0663 ARABIC-INDIC DIGIT THREE, a
\* character that is a decimal digit for \d in a str pattern but not 0-9.
LF == "\n"

ArabicThree == "U+0663"

AsciiDigits == {"0", "1", "2", "3", "4", "5", "6", "7", "8", "9"}

\* `not value`: None and the empty string are falsy.
Falsy(v) == v = None \/ v = <<>>

\* str.startswith(p)
StartsWith(s, p) == Len(s) >= Len(p) /\ \A i \in 1..Len(p) : s[i] = p[i]

\* s[n:]
From(s, n) == SubSeq(s, n + 1, Len(s))

\* \d of the re module on a str pattern: any Unicode decimal digit.
IsDigit(c) == c \in AsciiDigits \cup {ArabicThree}

plus254 == <<"+", "2", "5", "4">>

c254 == <<"2", "5", "4">>

zero == <<"0">>

plus == <<"+">>

----------------------------------------------------------------------------
(* ValidationError messages (the text after the interpolated value) *)

NoError == "no error"

SafaricomPrefixError == "is not a valid Safaricom prefix."

AirtelPrefixError == "is not a valid Airtel Kenya prefix."

LengthError == "must be 9 digits long after removing country code."

FormatError == "is not a valid Kenyan mobile number format."

PrefixCheck == "prefix"

LengthCheck == "length"

PatternCheck == "pattern"

----------------------------------------------------------------------------
(* 1. SafaricomPhoneField *)

safaricom_prefixes ==
    <<
       <<"0","7","0","0">>, <<"0","7","0","1">>, <<"0","7","0","2">>, <<"0","7","0","3">>, <<"0","7","0","4">>, <<"0","7","0","5">>, <<"0","7","0","6">>, <<"0","7","0","7">>, <<"0","7","0","8">>, <<"0","7","0","9">>,
       <<"0","7","1","0">>, <<"0","7","1","1">>, <<"0","7","1","2">>, <<"0","7","1","3">>, <<"0","7","1","4">>, <<"0","7","1","5">>, <<"0","7","1","6">>, <<"0","7","1","7">>, <<"0","7","1","8">>, <<"0","7","1","9">>,
       <<"0","7","2","0">>, <<"0","7","2","1">>, <<"0","7","2","2">>, <<"0","7","2","3">>, <<"0","7","2","4">>, <<"0","7","2","5">>, <<"0","7","2","6">>, <<"0","7","2","7">>, <<"0","7","2","8">>, <<"0","7","2","9">>,
       <<"0","7","4","0">>, <<"0","7","4","1">>, <<"0","7","4","2">>, <<"0","7","4","3">>, <<"0","7","4","5">>, <<"0","7","4","6">>, <<"0","7","4","8">>,
       <<"0","7","5","7">>, <<"0","7","5","8">>, <<"0","7","5","9">>,
       <<"0","7","6","8">>, <<"0","7","6","9">>,
       <<"0","7","9","0">>, <<"0","7","9","1">>, <<"0","7","9","2">>, <<"0","7","9","3">>, <<"0","7","9","4">>, <<"0","7","9","5">>, <<"0","7","9","6">>, <<"0","7","9","7">>, <<"0","7","9","8">>, <<"0","7","9","9">>,
       <<"0","1","1","0">>, <<"0","1","1","1">>, <<"0","1","1","2">>, <<"0","1","1","3">>, <<"0","1","1","4">>, <<"0","1","1","5">>
    >>

\* StripForValidation without its first branch.
StripForValidation_no_plus254(v) ==
    IF StartsWith(v, c254) THEN From(v, 3)
    ELSE IF StartsWith(v, zero) THEN From(v, 1)
    ELSE v

\* "Normalize for validation": strip one leading +254, else 254, else 0.
StripForValidation(v) ==
    IF StartsWith(v, plus254) THEN From(v, 4)
    ELSE IF StartsWith(v, c254) THEN From(v, 3)
    ELSE IF StartsWith(v, zero) THEN From(v, 1)
    ELSE v

\* any(normalized.startswith(prefix[1:]) for prefix in prefixes)
AnyPrefix(normalized, prefixes) ==
    \E i \in DOMAIN prefixes : StartsWith(normalized, From(prefixes[i], 1))

validate_safaricom_number(v) ==
    IF Falsy(v) THEN [raised |-> NoError, checks |-> <<>>]
    ELSE LET normalized == StripForValidation(v) IN
         IF ~AnyPrefix(normalized, safaricom_prefixes)
         THEN [raised |-> SafaricomPrefixError, checks |-> <<PrefixCheck>>]
         ELSE IF Len(normalized) # 9
         THEN [raised |-> LengthError, checks |-> <<PrefixCheck, LengthCheck>>]
         ELSE [raised |-> NoError, checks |-> <<PrefixCheck, LengthCheck>>]

\* models.CharField.to_python, the base method the three fields call first:
\* a str or None is returned as it is (other types, which the model does not
\* draw, are passed through str()).
CharField_to_python(v) == v

\* models.Field.get_prep_value, which models.CharField.get_prep_value calls
\* first: a str or None is returned as it is.
Field_get_prep_value(v) == v

SafaricomPhoneField_max_length == 12

\* to_python without its '0' branch.
SafaricomPhoneField_to_python_no_zero(v0) ==
    LET v == CharField_to_python(v0) IN
    IF Falsy(v) THEN v
    ELSE IF StartsWith(v, plus254) THEN c254 \o From(v, 4)
    ELSE IF ~StartsWith(v, c254) THEN c254 \o v
    ELSE v

SafaricomPhoneField_to_python(v0) ==
    LET v == CharField_to_python(v0) IN
    IF Falsy(v) THEN v
    ELSE IF StartsWith(v, plus254) THEN c254 \o From(v, 4)
    ELSE IF StartsWith(v, zero) THEN c254 \o From(v, 1)
    ELSE IF ~StartsWith(v, c254) THEN c254 \o v
    ELSE v

\* super().get_prep_value(value) is models.CharField.get_prep_value, which
\* returns self.to_python(Field.get_prep_value(value)): self.to_python is the
\* field's own to_python above.
SafaricomPhoneField_get_prep_value(v0) ==
    LET v == SafaricomPhoneField_to_python(Field_get_prep_value(v0)) IN
    IF Falsy(v) THEN v
    ELSE IF StartsWith(v, plus254) THEN c254 \o From(v, 4)
    ELSE IF StartsWith(v, zero) THEN c254 \o From(v, 1)
    ELSE IF ~StartsWith(v, c254) THEN c254 \o v
    ELSE v

----------------------------------------------------------------------------
(* 2. AirtelPhoneField *)

airtel_prefixes ==
    <<
       <<"0","7","3","0">>, <<"0","7","3","1">>, <<"0","7","3","2">>, <<"0","7","3","3">>, <<"0","7","3","4">>, <<"0","7","3","5">>, <<"0","7","3","6">>, <<"0","7","3","7">>, <<"0","7","3","8">>, <<"0","7","3","9">>,
       <<"0","7","5","0">>, <<"0","7","5","1">>, <<"0","7","5","2">>, <<"0","7","5","3">>, <<"0","7","5","4">>, <<"0","7","5","5">>, <<"0","7","5","6">>,
       <<"0","7","8","0">>, <<"0","7","8","1">>, <<"0","7","8","2">>, <<"0","7","8","3">>, <<"0","7","8","4">>, <<"0","7","8","5">>, <<"0","7","8","6">>, <<"0","7","8","7">>, <<"0","7","8","8">>, <<"0","7","8","9">>,
       <<"0","1","0","0">>, <<"0","1","0","1">>, <<"0","1","0","2">>, <<"0","1","0","3">>, <<"0","1","0","4">>, <<"0","1","0","5">>, <<"0","1","0","6">>, <<"0","1","0","7">>, <<"0","1","0","8">>, <<"0","1","0","9">>
    >>

\* validate_airtel_number with the length check before the prefix check.
validate_airtel_number_length_first(v) ==
    IF Falsy(v) THEN [raised |-> NoError, checks |-> <<>>]
    ELSE LET normalized == StripForValidation(v) IN
         IF Len(normalized) # 9
         THEN [raised |-> LengthError, checks |-> <<LengthCheck>>]
         ELSE IF ~AnyPrefix(normalized, airtel_prefixes)
         THEN [raised |-> AirtelPrefixError, checks |-> <<LengthCheck, PrefixCheck>>]
         ELSE [raised |-> NoError, checks |-> <<LengthCheck, PrefixCheck>>]

validate_airtel_number(v) ==
    IF Falsy(v) THEN [raised |-> NoError, checks |-> <<>>]
    ELSE LET normalized == StripForValidation(v) IN
         IF ~AnyPrefix(normalized, airtel_prefixes)
         THEN [raised |-> AirtelPrefixError, checks |-> <<PrefixCheck>>]
         ELSE IF Len(normalized) # 9
         THEN [raised |-> LengthError, checks |-> <<PrefixCheck, LengthCheck>>]
         ELSE [raised |-> NoError, checks |-> <<PrefixCheck, LengthCheck>>]

AirtelPhoneField_max_length == 12

\* to_python without the test for a value that already starts with '254'.
AirtelPhoneField_to_python_always_prepend(v0) ==
    LET v == CharField_to_python(v0) IN
    IF Falsy(v) THEN v
    ELSE IF StartsWith(v, plus254) THEN c254 \o From(v, 4)
    ELSE IF StartsWith(v, zero) THEN c254 \o From(v, 1)
    ELSE c254 \o v

AirtelPhoneField_to_python(v0) ==
    LET v == CharField_to_python(v0) IN
    IF Falsy(v) THEN v
    ELSE IF StartsWith(v, plus254) THEN c254 \o From(v, 4)
    ELSE IF StartsWith(v, zero) THEN c254 \o From(v, 1)
    ELSE IF ~StartsWith(v, c254) THEN c254 \o v
    ELSE v

\* The base call runs the field's own to_python, as in SafaricomPhoneField.
AirtelPhoneField_get_prep_value(v0) ==
    LET v == AirtelPhoneField_to_python(Field_get_prep_value(v0)) IN
    IF Falsy(v) THEN v
    ELSE IF StartsWith(v, plus254) THEN c254 \o From(v, 4)
    ELSE IF StartsWith(v, zero) THEN c254 \o From(v, 1)
    ELSE IF ~StartsWith(v, c254) THEN c254 \o v
    ELSE v

----------------------------------------------------------------------------
(* 3. KenyanPhoneField *)

\* (7\d{8}|1\d{8})$ on the rest r of the string: '7' or '1', eight \d, and
\* then $, which (without re.MULTILINE) matches at the end of the string and
\* also just before a newline that is the string's last character.
MatchSubscriber(r) ==
    /\ Len(r) >= 9
    /\ r[1] \in {"7", "1"}
    /\ \A i \in 2..9 : IsDigit(r[i])
    /\ \/ Len(r) = 9
       \/ Len(r) = 10 /\ r[10] = LF

\* The pattern with the '+' optional before both alternatives: ^\+?(?:254|0).
KENYAN_MOBILE_REGEX_match_plus_any(v) ==
    \E p \in {plus254, c254, plus \o zero, zero} :
        StartsWith(v, p) /\ MatchSubscriber(From(v, Len(p)))

\* KENYAN_MOBILE_REGEX.match(v): ^(?:\+?254|0) is '+254', '254' or '0'.
KENYAN_MOBILE_REGEX_match(v) ==
    \E p \in {plus254, c254, zero} :
        StartsWith(v, p) /\ MatchSubscriber(From(v, Len(p)))

\* validate_kenyan_number without the test for a blank value.
validate_kenyan_number_no_blank(v) ==
    IF ~KENYAN_MOBILE_REGEX_match(v)
    THEN [raised |-> FormatError, checks |-> <<PatternCheck>>]
    ELSE [raised |-> NoError, checks |-> <<PatternCheck>>]

validate_kenyan_number(v) ==
    IF Falsy(v) THEN [raised |-> NoError, checks |-> <<>>]
    ELSE IF ~KENYAN_MOBILE_REGEX_match(v)
    THEN [raised |-> FormatError, checks |-> <<PatternCheck>>]
    ELSE [raised |-> NoError, checks |-> <<PatternCheck>>]

KenyanPhoneField_max_length == 13

\* to_python whose last branch returns the value as it is.
KenyanPhoneField_to_python_branches_no_prepend(v0) ==
    IF Falsy(v0) THEN v0
    ELSE LET v == IF StartsWith(v0, plus) THEN From(v0, 1) ELSE v0 IN
         IF StartsWith(v, c254) THEN v
         ELSE IF StartsWith(v, zero) THEN c254 \o From(v, 1)
         ELSE v

\* to_python after the base call: "Remove any leading '+'", then the branches.
KenyanPhoneField_to_python_branches(v0) ==
    IF Falsy(v0) THEN v0
    ELSE LET v == IF StartsWith(v0, plus) THEN From(v0, 1) ELSE v0 IN
         IF StartsWith(v, c254) THEN v
         ELSE IF StartsWith(v, zero) THEN c254 \o From(v, 1)
         ELSE c254 \o v

KenyanPhoneField_to_python(v0) ==
    KenyanPhoneField_to_python_branches(CharField_to_python(v0))

\* get_prep_value with to_python's statements.
KenyanPhoneField_get_prep_value_branches_strip_plus(v) ==
    KenyanPhoneField_to_python_branches(v)

\* get_prep_value after the base call.
KenyanPhoneField_get_prep_value_branches(v) ==
    IF Falsy(v) THEN v
    ELSE IF StartsWith(v, plus254) THEN c254 \o From(v, 4)
    ELSE IF StartsWith(v, zero) THEN c254 \o From(v, 1)
    ELSE IF ~StartsWith(v, c254) THEN c254 \o v
    ELSE v

\* The base call runs the field's own to_python, as in SafaricomPhoneField.
KenyanPhoneField_get_prep_value(v0) ==
    KenyanPhoneField_get_prep_value_branches(
        KenyanPhoneField_to_python(Field_get_prep_value(v0)))

----------------------------------------------------------------------------
(* The inputs the model draws *)

\* The body's filler is a run of up to MaxFill copies of one character.
MaxFill == 7

\* A marker is what the code looks for at the start of a value: none, one or
\* two of '+', '0' and '254' ('+254', '+0', '++', '0254', '254254' ...).
MarkerTokens == {plus, zero, c254}

Markers ==
    {<<>>} \cup MarkerTokens \cup {m \o t : m \in MarkerTokens, t \in MarkerTokens}

\* The first three characters of the subscriber number: Safaricom prefixes
\* (700, 702, 707, 710, 712, 717, 740, 742, 110, 112), Airtel prefixes (100,
\* 102, 107), gaps of both tables (747, 117, 14x, 2xx), and a prefix whose
\* third character is a digit other than 0-9.
Heads ==
    {<<a, b, c>> : a \in {"7", "1", "2"}, b \in {"0", "1", "4"}, c \in {"0", "2", "7"}}
        \cup {<<"7", "1", ArabicThree>>}

FillChars == {"5", "a"}

Fills == {[i \in 1..n |-> c] : c \in FillChars, n \in 0..MaxFill}

Ends == {<<>>, <<LF>>}

Bodies == {<<>>} \cup {h \o f \o e : h \in Heads, f \in Fills, e \in Ends}

\* The example numbers the fields are documented with, and the first of them
\* behind a '+'.
E_0712345678 == <<"0","7","1","2","3","4","5","6","7","8">>

E_plus254733123456 == <<"+","2","5","4","7","3","3","1","2","3","4","5","6">>

E_254712345678 == <<"2","5","4","7","1","2","3","4","5","6","7","8">>

E_0112345678 == <<"0","1","1","2","3","4","5","6","7","8">>

E_0212345678 == <<"0","2","1","2","3","4","5","6","7","8">>

E_9999999 == <<"9","9","9","9","9","9","9">>

E_plus0712345678 == <<"+","0","7","1","2","3","4","5","6","7","8">>

Examples ==
    {E_0712345678, E_plus254733123456, E_254712345678, E_0112345678,
     E_0212345678, E_9999999, E_plus0712345678}

Inputs ==
    {None} \cup Examples
           \cup {m \o b : m \in Markers, b \in Bodies}

----------------------------------------------------------------------------
(* The state machine *)

Validators ==
    {"validate_safaricom_number", "validate_airtel_number",
     "validate_kenyan_number"}

Conversions(field) ==
    {field \o ".to_python", field \o ".get_prep_value"}

\* A conversion is called on the input, or on what a conversion of the same
\* field returned.
ConvArgs(field) == {value} \cup (IF fn \in Conversions(field) THEN {ret} ELSE {})

Init ==
    /\ value \in Inputs
    /\ fn = "none"
    /\ arg = None
    /\ ret = None
    /\ raised = NoError
    /\ checks = <<>>

Validate(name, r) ==
    /\ fn' = name
    /\ arg' = value
    /\ ret' = None
    /\ raised' = r.raised
    /\ checks' = r.checks
    /\ UNCHANGED value

Convert(name, a, r) ==
    /\ fn' = name
    /\ arg' = a
    /\ ret' = r
    /\ raised' = NoError
    /\ checks' = <<>>
    /\ UNCHANGED value

CallValidateSafaricom ==
    Validate("validate_safaricom_number", validate_safaricom_number(value))

CallValidateAirtel ==
    Validate("validate_airtel_number", validate_airtel_number(value))

CallValidateKenyan ==
    Validate("validate_kenyan_number", validate_kenyan_number(value))

CallSafaricomToPython ==
    \E a \in ConvArgs("SafaricomPhoneField") :
        Convert("SafaricomPhoneField.to_python", a, SafaricomPhoneField_to_python(a))

CallSafaricomGetPrepValue ==
    \E a \in ConvArgs("SafaricomPhoneField") :
        Convert("SafaricomPhoneField.get_prep_value", a,
                SafaricomPhoneField_get_prep_value(a))

CallAirtelToPython ==
    \E a \in ConvArgs("AirtelPhoneField") :
        Convert("AirtelPhoneField.to_python", a, AirtelPhoneField_to_python(a))

CallAirtelGetPrepValue ==
    \E a \in ConvArgs("AirtelPhoneField") :
        Convert("AirtelPhoneField.get_prep_value", a,
                AirtelPhoneField_get_prep_value(a))

CallKenyanToPython ==
    \E a \in ConvArgs("KenyanPhoneField") :
        Convert("KenyanPhoneField.to_python", a, KenyanPhoneField_to_python(a))

CallKenyanGetPrepValue ==
    \E a \in ConvArgs("KenyanPhoneField") :
        Convert("KenyanPhoneField.get_prep_value", a,
                KenyanPhoneField_get_prep_value(a))

Next ==
    \/ CallValidateSafaricom
    \/ CallValidateAirtel
    \/ CallValidateKenyan
    \/ CallSafaricomToPython
    \/ CallSafaricomGetPrepValue
    \/ CallAirtelToPython
    \/ CallAirtelGetPrepValue
    \/ CallKenyanToPython
    \/ CallKenyanGetPrepValue

Spec == Init /\ [][Next]_vars

----------------------------------------------------------------------------
(* What the documentation states, written from its words *)

Fields == {"SafaricomPhoneField", "AirtelPhoneField", "KenyanPhoneField"}

CarrierConversions ==
    Conversions("SafaricomPhoneField") \cup Conversions("AirtelPhoneField")

AllConversions == CarrierConversions \cup Conversions("KenyanPhoneField")

CarrierValidators == {"validate_safaricom_number", "validate_airtel_number"}

\* The value with one leading '+254', else '254', else '0' removed.
Remainder(v) ==
    CASE StartsWith(v, plus254) -> SubSeq(v, 5, Len(v))
      [] ~StartsWith(v, plus254) /\ StartsWith(v, c254) -> SubSeq(v, 4, Len(v))
      [] ~StartsWith(v, plus254) /\ ~StartsWith(v, c254) /\ StartsWith(v, zero) ->
             SubSeq(v, 2, Len(v))
      [] OTHER -> v

\* The table entries without their leading '0'.
ShortPrefixes(table) == {Tail(table[i]) : i \in DOMAIN table}

TableOf(validator) ==
    IF validator = "validate_safaricom_number" THEN safaricom_prefixes
    ELSE airtel_prefixes

PrefixErrorOf(validator) ==
    IF validator = "validate_safaricom_number" THEN SafaricomPrefixError
    ELSE AirtelPrefixError

\* The remainder starts with an entry of the validator's table.
RecognizedPrefix(validator, v) ==
    Len(Remainder(v)) >= 3
        /\ SubSeq(Remainder(v), 1, 3) \in ShortPrefixes(TableOf(validator))

\* The carrier fields' conversion, as documented.
CarrierCanonical(v) ==
    CASE Falsy(v) -> v
      [] ~Falsy(v) /\ StartsWith(v, plus254) -> c254 \o SubSeq(v, 5, Len(v))
      [] ~Falsy(v) /\ ~StartsWith(v, plus254) /\ StartsWith(v, zero) ->
             c254 \o Tail(v)
      [] ~Falsy(v) /\ ~StartsWith(v, plus254) /\ ~StartsWith(v, zero)
             /\ ~StartsWith(v, c254) -> c254 \o v
      [] OTHER -> v

\* C1: the to_python and get_prep_value of the Safaricom and Airtel fields
\* compute the same function of their argument: a blank value is returned
\* unchanged, '+254' is replaced by '254', else a leading '0' is replaced by
\* '254', else '254' is put before a value that does not start with it, else
\* the value is returned unchanged; '0712345678' gives '254712345678',
\* '+254733123456' gives '254733123456' and '9999999' gives '2549999999'.
C1_CarrierConversion ==
    fn \in CarrierConversions =>
        /\ ret = CarrierCanonical(arg)
        /\ raised = NoError
        /\ arg = E_0712345678 => ret = E_254712345678
        /\ arg = E_plus254733123456 => ret = c254 \o SubSeq(E_plus254733123456, 5, 13)
        /\ arg = E_9999999 => ret = c254 \o E_9999999

C1_Witness ==
    /\ fn = "AirtelPhoneField.get_prep_value"
    /\ arg = E_9999999
    /\ ret = <<"2","5","4","9","9","9","9","9","9","9">>

\* C2: a carrier validator accepts every value whose remainder is 9
\* characters long and starts with an entry of its table; '0112345678'
\* passes the Safaricom validator and '+254733123456' the Airtel one.
C2_RecognizedAccepted ==
    fn \in CarrierValidators =>
        /\ (~Falsy(arg) /\ Len(Remainder(arg)) = 9 /\ RecognizedPrefix(fn, arg))
               => raised = NoError
        /\ (fn = "validate_safaricom_number" /\ arg = E_0112345678)
               => raised = NoError
        /\ (fn = "validate_airtel_number" /\ arg = E_plus254733123456)
               => raised = NoError

C2_Witness ==
    /\ fn = "validate_airtel_number"
    /\ arg = E_plus254733123456
    /\ raised = NoError
    /\ checks = <<PrefixCheck, LengthCheck>>

\* '7' or '1' followed by eight digits.
IsSubscriber(d) ==
    Len(d) = 9 /\ d[1] \in {"7", "1"} /\ \A i \in 2..9 : IsDigit(d[i])

\* An optional '+', then '254' or '0', then a subscriber number: the whole
\* string.
OptionalPlusThenCode(v) ==
    \E p \in {<<>>, plus}, c \in {c254, zero} :
        /\ Len(v) = Len(p) + Len(c) + 9
        /\ SubSeq(v, 1, Len(p)) = p
        /\ SubSeq(v, Len(p) + 1, Len(p) + Len(c)) = c
        /\ IsSubscriber(SubSeq(v, Len(p) + Len(c) + 1, Len(v)))

\* '+254', '254' or '0', then a subscriber number, then nothing or one
\* newline.
CodeThenSubscriber(v) ==
    \E c \in {plus254, c254, zero}, e \in {<<>>, <<LF>>} :
        /\ Len(v) = Len(c) + 9 + Len(e)
        /\ SubSeq(v, 1, Len(c)) = c
        /\ IsSubscriber(SubSeq(v, Len(c) + 1, Len(c) + 9))
        /\ SubSeq(v, Len(c) + 10, Len(v)) = e

C4_BlankAccepted ==
    (fn \in Validators /\ Falsy(arg)) => (raised = NoError /\ checks = <<>>)

C4_Witness ==
    /\ fn = "validate_kenyan_number"
    /\ arg = <<>>
    /\ raised = NoError

\* C5: in the carrier validators the prefix check comes first and decides
\* alone when it fails: a remainder that matches no prefix raises the prefix
\* error whatever its length and the length check is not evaluated; a
\* remainder that matches a prefix and is not 9 long raises the length
\* error; so the length error is raised only when the prefix matched.
C5_PrefixBeforeLength ==
    (fn \in CarrierValidators /\ ~Falsy(arg)) =>
        /\ ~RecognizedPrefix(fn, arg) =>
               (raised = PrefixErrorOf(fn) /\ checks = <<PrefixCheck>>)
        /\ (RecognizedPrefix(fn, arg) /\ Len(Remainder(arg)) # 9) =>
               (raised = LengthError /\ checks = <<PrefixCheck, LengthCheck>>)
        /\ raised = LengthError => RecognizedPrefix(fn, arg)

C5_Witness ==
    /\ fn = "validate_airtel_number"
    /\ RecognizedPrefix(fn, arg)
    /\ Len(Remainder(arg)) = 10
    /\ raised = LengthError

\* C6: each of the six conversions returns, for every non-blank string, a
\* string that starts with '254', and raises nothing.
C6_Starts254 ==
    (fn \in AllConversions /\ ~Falsy(arg)) =>
        (ret # None /\ raised = NoError /\ Len(ret) >= 3 /\ SubSeq(ret, 1, 3) = c254)

C6_Witness ==
    /\ fn = "KenyanPhoneField.to_python"
    /\ arg = plus \o plus
    /\ ret = c254 \o plus

\* C7: a conversion applied to what a conversion of the same field returned
\* returns it unchanged, and every conversion returns '254712345678'
\* unchanged.
C7_RoundTrip ==
    /\ [](fn \in AllConversions /\ arg = E_254712345678 => ret = E_254712345678)
    /\ [][\A f \in Fields :
            (fn \in Conversions(f) /\ fn' \in Conversions(f) /\ arg' = ret)
                => ret' = ret]_vars

C7_Witness ==
    /\ fn = "KenyanPhoneField.get_prep_value"
    /\ value = E_plus0712345678
    /\ arg = E_254712345678
    /\ ret = arg

AllAsciiDigits(d) == \A i \in 1..Len(d) : d[i] \in AsciiDigits

\* C8 as stated: a carrier validator accepts a non-blank value only if its
\* remainder is exactly 9 decimal digits.
C8_AsStated ==
    (fn \in CarrierValidators /\ ~Falsy(arg) /\ raised = NoError) =>
        (Len(Remainder(arg)) = 9 /\ AllAsciiDigits(Remainder(arg)))

ValidatorOf(f) ==
    CASE f = "SafaricomPhoneField" -> validate_safaricom_number(arg)
      [] f = "AirtelPhoneField" -> validate_airtel_number(arg)
      [] f = "KenyanPhoneField" -> validate_kenyan_number(arg)

MaxLengthOf(f) ==
    CASE f = "SafaricomPhoneField" -> SafaricomPhoneField_max_length
      [] f = "AirtelPhoneField" -> AirtelPhoneField_max_length
      [] f = "KenyanPhoneField" -> KenyanPhoneField_max_length

\* C9 as stated: for a non-blank value its field's validator accepts, both
\* conversions return '254' and then the 9-character remainder, 12
\* characters in all and no more than the field's max_length.
C9_AsStated ==
    \A f \in Fields :
        (fn \in Conversions(f) /\ ~Falsy(arg) /\ ValidatorOf(f).raised = NoError) =>
            /\ ret = c254 \o Remainder(arg)
            /\ Len(Remainder(arg)) = 9
            /\ Len(ret) = 12
            /\ Len(ret) <= MaxLengthOf(f)

\* C10 as stated: for a non-blank value the two conversions of
\* KenyanPhoneField return the same string exactly when the value does not
\* start with '+' or starts with '+254'.
C10_AsStated ==
    (fn \in Conversions("KenyanPhoneField") /\ ~Falsy(arg)) =>
        (KenyanPhoneField_to_python(arg) = KenyanPhoneField_get_prep_value(arg)
            <=> (~StartsWith(arg, plus) \/ StartsWith(arg, plus254)))

\* C10: get_prep_value of KenyanPhoneField returns what to_python returns for
\* every value, because the base get_prep_value has already passed the value
\* through to_python; the statements of the two methods after their base
\* calls, applied to the same non-blank string, give the same string exactly
\* when it does not start with '+' or starts with '+254'.
C10_KenyanDirections ==
    fn \in Conversions("KenyanPhoneField") =>
        /\ ret = KenyanPhoneField_to_python(arg)
        /\ ret = KenyanPhoneField_get_prep_value(arg)
        /\ ~Falsy(arg) =>
               (KenyanPhoneField_to_python_branches(arg)
                    = KenyanPhoneField_get_prep_value_branches(arg)
                <=> (~StartsWith(arg, plus) \/ StartsWith(arg, plus254)))

C10_Witness ==
    /\ fn = "KenyanPhoneField.get_prep_value"
    /\ arg = E_plus0712345678
    /\ ret = E_254712345678
    /\ KenyanPhoneField_get_prep_value_branches(arg) = c254 \o arg

====
